---- MODULE Spec2Model ----
(***************************************************************************)
(* Model of deproject2: the geometric camera kernel of deproject-io        *)
(* (projection, deprojection, rigid transform, depth-to-color alignment),  *)
(* the ImagePointCloud value and the capture loop that builds one point    *)
(* cloud per frame and hands it to the UI over a channel.                  *)
(*                                                                         *)
(* f32 values are modelled as binary fixed-point numbers: the integer v    *)
(* stands for the real v / Scale.  Every arithmetic operation rounds its   *)
(* exact result to the nearest representable value, as the f32 operations  *)
(* do; results beyond FLimit become the infinities and 0/0 becomes NaN.    *)
(***************************************************************************)
EXTENDS Integers, Sequences, FiniteSets, TLC

\* ------------------------------------------------------------------ f32

\* Number of representable values per unit.
Scale == 4096

\* Largest finite magnitude: every u16 depth is representable.
FMaxInt == 65536

FLimit == FMaxInt * Scale

FPosInf == FLimit + 1

FNegInf == 0 - (FLimit + 1)

FNaN == FLimit + 2

\* f32::EPSILON: the smallest positive step of the representation.
F32_EPSILON == 1

\* let v = e in F(v): e is evaluated once, whatever F does with v.
Let(e, F(_)) == CHOOSE r \in {F(v) : v \in {e}} : TRUE

IsNaN(a) == a = FNaN

IsInf(a) == a = FPosInf \/ a = FNegInf

IsFinite(a) == a >= 0 - FLimit /\ a <= FLimit

Abs(a) == IF a < 0 THEN 0 - a ELSE a

Sign(a) == IF a < 0 THEN 0 - 1 ELSE 1

\* A signed magnitude as an f32: out of range is an infinity.
Pack(sgn, mag) ==
  IF mag > FLimit THEN (IF sgn < 0 THEN FNegInf ELSE FPosInf) ELSE sgn * mag

\* usize / u16 / integer literal "as f32".
I2F(n) == Pack(Sign(n), IF Abs(n) > FMaxInt THEN FLimit + 1 ELSE Abs(n) * Scale)

FNeg(a) == IF IsNaN(a) THEN FNaN ELSE 0 - a

FAdd(a, b) ==
  IF IsNaN(a) \/ IsNaN(b) THEN FNaN
  ELSE IF IsInf(a) THEN (IF IsInf(b) /\ a # b THEN FNaN ELSE a)
  ELSE IF IsInf(b) THEN b
  ELSE Pack(Sign(a + b), Abs(a + b))

FSub(a, b) == FAdd(a, FNeg(b))

\* |a| * |b| / Scale rounded to nearest, without leaving the integer range.
MulMag(A, B) ==
  LET qa == A \div Scale
      ra == A % Scale
      qb == B \div Scale
      rb == B % Scale
  IN IF qa > 0 /\ qb > FMaxInt \div qa THEN FLimit + 1
     ELSE qa * qb * Scale + qa * rb + ra * qb + (ra * rb + Scale \div 2) \div Scale

FMul(a, b) ==
  IF IsNaN(a) \/ IsNaN(b) THEN FNaN
  ELSE IF IsInf(a) \/ IsInf(b)
       THEN (IF a = 0 \/ b = 0 THEN FNaN
             ELSE IF Sign(a) * Sign(b) < 0 THEN FNegInf ELSE FPosInf)
  ELSE Pack(Sign(a) * Sign(b), MulMag(Abs(a), Abs(b)))

\* The fraction bits of r / B (0 <= r < B), most significant first, rounded.
RECURSIVE DivFrac(_, _, _)
DivFrac(r, B, w) ==
  IF w = 0 THEN (IF 2 * r >= B THEN 1 ELSE 0)
  ELSE LET bit == IF 2 * r >= B THEN 1 ELSE 0
       IN bit * w + DivFrac(2 * r - bit * B, B, w \div 2)

DivMag(A, B) ==
  IF A \div B > FMaxInt THEN FLimit + 1
  ELSE (A \div B) * Scale + DivFrac(A % B, B, Scale \div 2)

FDiv(a, b) ==
  IF IsNaN(a) \/ IsNaN(b) THEN FNaN
  ELSE IF IsInf(a)
       THEN (IF IsInf(b) THEN FNaN
             ELSE IF Sign(a) * Sign(b) < 0 THEN FNegInf ELSE FPosInf)
  ELSE IF IsInf(b) THEN 0
  ELSE IF b = 0
       THEN (IF a = 0 THEN FNaN ELSE IF a < 0 THEN FNegInf ELSE FPosInf)
  ELSE Pack(Sign(a) * Sign(b), DivMag(Abs(a), Abs(b)))

\* Largest y with y * y <= n (n < 2^30), by bisection on the bits of y.
RECURSIVE ISqrtBits(_, _, _)
ISqrtBits(n, y, bit) ==
  IF bit = 0 THEN y
  ELSE IF (y + bit) * (y + bit) <= n THEN ISqrtBits(n, y + bit, bit \div 2)
  ELSE ISqrtBits(n, y, bit \div 2)

ISqrt(n) ==
  Let(ISqrtBits(n, 0, 16384), LAMBDA y : IF n - y * y > y THEN y + 1 ELSE y)

\* f32::sqrt
FSqrt(a) ==
  IF IsNaN(a) \/ a < 0 THEN FNaN
  ELSE IF IsInf(a) THEN FPosInf
  ELSE IF a < 262144 THEN ISqrt(a * Scale)
  ELSE ISqrt(a) * ISqrt(Scale)

\* pi / 2, pi / 4 and atan(1/2) in units of 1 / Scale.
FHalfPi == 6434

FQuarterPi == 3217

FAtanHalf == 1899

\* 1 / k as an f32, for the series below.
Inv(k) == FDiv(Scale, k * Scale)

\* atan t for |t| <= 1/2: t (1 - u/3 + u^2/5 - ... + u^6/13), u = t^2.
AtanSeries(t) ==
  Let(FMul(t, t), LAMBDA u :
    FSub(t, FMul(t, FMul(u,
      FSub(Inv(3), FMul(u,
        FSub(Inv(5), FMul(u,
          FSub(Inv(7), FMul(u,
            FSub(Inv(9), FMul(u,
              FSub(Inv(11), FMul(u, Inv(13)))))))))))))))

\* atan x for 0 <= x <= 1: atan(1/2) + atan((x - 1/2) / (1 + x/2)).
AtanUnit(x) ==
  FAdd(FAtanHalf,
       AtanSeries(FDiv(FSub(x, Scale \div 2), FAdd(Scale, x \div 2))))

\* f32::atan
FAtan(a) ==
  IF IsNaN(a) THEN FNaN
  ELSE IF a = FPosInf THEN FHalfPi
  ELSE IF a = FNegInf THEN 0 - FHalfPi
  ELSE Sign(a) * (IF Abs(a) <= Scale THEN AtanUnit(Abs(a))
                   ELSE FSub(FHalfPi, AtanUnit(FDiv(Scale, Abs(a)))))

\* sin x and cos x for |x| <= pi / 4.
SinSeries(x) ==
  Let(FMul(x, x), LAMBDA u :
    FSub(x, FMul(x, FMul(u,
      FSub(Inv(6), FMul(u,
        FSub(Inv(120), FMul(u,
          FSub(Inv(5040), FMul(u, Inv(362880)))))))))))

CosSeries(x) ==
  Let(FMul(x, x), LAMBDA u :
    FSub(Scale, FMul(u,
      FSub(Inv(2), FMul(u,
        FSub(Inv(24), FMul(u,
          FSub(Inv(720), FMul(u, Inv(40320))))))))))

\* tan x for 0 <= x <= pi / 2: through the cotangent above pi / 4.
TanQuadrant(x) ==
  IF x <= FQuarterPi THEN FDiv(SinSeries(x), CosSeries(x))
  ELSE FDiv(CosSeries(FSub(FHalfPi, x)), SinSeries(FSub(FHalfPi, x)))

\* f32::tan, the argument reduced by multiples of pi.
FTan(a) ==
  IF IsNaN(a) \/ IsInf(a) THEN FNaN
  ELSE Let(Abs(a) % (2 * FHalfPi), LAMBDA x :
         Let(IF x <= FHalfPi THEN TanQuadrant(x)
             ELSE FNeg(TanQuadrant(2 * FHalfPi - x)), LAMBDA m :
           IF a < 0 THEN FNeg(m) ELSE m))

\* f32::abs
FAbs(a) == IF IsNaN(a) THEN FNaN ELSE Abs(a)

\* "as i32" of an f32: toward zero, saturating, NaN to 0.
I32_MAX == 2147483647

F2I32(a) ==
  IF IsNaN(a) THEN 0
  ELSE IF a = FPosInf THEN I32_MAX
  ELSE IF a = FNegInf THEN 0 - I32_MAX - 1
  ELSE Sign(a) * (Abs(a) \div Scale)

\* ------------------------------------------------- projection kernel

\* Rs2DistortionModel
DistortionModels ==
  {"None", "BrownConrady", "BrownConradyModified", "BrownConradyInverse",
   "FThetaFisheye", "KannalaBrandt"}

Two == I2F(2)

One == I2F(1)

\* A panic unwinding out of a call, and a call that returned v.
Panic(msg) == [panic |-> TRUE, msg |-> msg]

Ok(v) == [panic |-> FALSE, val |-> v]

\* 1 + k1 r2 + k2 r2^2 + k3 r2^3, as lines 36-39 and 50-53 evaluate it.
\* A radial factor whose last term is k3 r2^6.
RadialFactorSixth(c, r2) ==
  FAdd(FAdd(FAdd(One, FMul(c[1], r2)), FMul(FMul(c[2], r2), r2)),
       FMul(FMul(FMul(FMul(FMul(FMul(c[5], r2), r2), r2), r2), r2), r2))

RadialFactor(c, r2) ==
  FAdd(FAdd(FAdd(One, FMul(c[1], r2)), FMul(FMul(c[2], r2), r2)),
       FMul(FMul(FMul(c[5], r2), r2), r2))

\* x + 2 p1 x y + p2 (r2 + 2 x x) with the first summand given as xs.
TangentialX(c, xs, x, y, r2) ==
  FAdd(FAdd(xs, FMul(FMul(FMul(Two, c[3]), x), y)),
       FMul(c[4], FAdd(r2, FMul(FMul(Two, x), x))))

TangentialY(c, ys, x, y, r2) ==
  FAdd(FAdd(ys, FMul(FMul(FMul(Two, c[4]), x), y)),
       FMul(c[3], FAdd(r2, FMul(FMul(Two, y), y))))

\* The radius floored at f32::EPSILON.
FloorEps(r) == IF r < F32_EPSILON THEN F32_EPSILON ELSE r

\* x^2 + y^2
Radius2(x, y) == FAdd(FMul(x, x), FMul(y, y))

\* Lines 35-45
ProjectBrownConradyModified(c, x, y) ==
  Let(Radius2(x, y), LAMBDA r2 :
  Let(RadialFactor(c, r2), LAMBDA f :
  Let(FMul(x, f), LAMBDA xf :
  Let(FMul(y, f), LAMBDA yf :
    <<TangentialX(c, xf, xf, yf, r2), TangentialY(c, yf, xf, yf, r2)>>))))

\* Lines 49-62
ProjectBrownConrady(c, x, y) ==
  Let(Radius2(x, y), LAMBDA r2 :
  Let(RadialFactor(c, r2), LAMBDA f :
    <<TangentialX(c, FMul(x, f), x, y, r2),
      TangentialY(c, FMul(y, f), x, y, r2)>>))

\* <<x, y>> scaled by num / den.
Rescale(x, y, num, den) ==
  Let(FDiv(num, den), LAMBDA q : <<FMul(x, q), FMul(y, q)>>)

\* Lines 66-72
ProjectFThetaFisheye(c, x, y) ==
  Let(FloorEps(FSqrt(Radius2(x, y))), LAMBDA r :
    Rescale(x, y,
      FMul(FDiv(One, c[1]), FAtan(FMul(FMul(Two, r), FTan(FDiv(c[1], Two))))),
      r))

\* theta (1 + theta2 (k0 + theta2 (k1 + theta2 (k2 + theta2 k3))))
KannalaBrandtPoly(c, theta, theta2) ==
  FMul(theta,
    FAdd(One,
      FMul(theta2,
        FAdd(c[1],
          FMul(theta2,
            FAdd(c[2], FMul(theta2, FAdd(c[3], FMul(theta2, c[4])))))))))

\* Lines 76-90
ProjectKannalaBrandt(c, x, y) ==
  Let(FloorEps(FSqrt(Radius2(x, y))), LAMBDA r :
  Let(FAtan(r), LAMBDA theta :
    Rescale(x, y, KannalaBrandtPoly(c, theta, FMul(theta, theta)), r)))

\* A match that distorts whatever the model is.
ProjectDistortAlways(model, c, x, y) == ProjectBrownConrady(c, x, y)

\* The match of rs2_project_point_to_pixel on normalized <<x, y>>.
ProjectDistort(model, c, x, y) ==
  CASE model \in {"BrownConradyModified", "BrownConradyInverse"} ->
         ProjectBrownConradyModified(c, x, y)
    [] model = "BrownConrady" -> ProjectBrownConrady(c, x, y)
    [] model = "FThetaFisheye" -> ProjectFThetaFisheye(c, x, y)
    [] model = "KannalaBrandt" -> ProjectKannalaBrandt(c, x, y)
    [] model = "None" -> <<x, y>>

rs2_project_point_to_pixel(intrin, point) ==
  Let(ProjectDistort(intrin.model, intrin.coeffs,
                     FDiv(point[1], point[3]), FDiv(point[2], point[3])),
      LAMBDA d : <<FAdd(FMul(d[1], intrin.fx), intrin.ppx),
                   FAdd(FMul(d[2], intrin.fy), intrin.ppy)>>)

\* 1 / (1 + ((k3 r2 + k2) r2 + k1) r2)
Icdist(c, r2) ==
  FDiv(One,
       FAdd(One, FMul(FAdd(FMul(FAdd(FMul(c[5], r2), c[2]), r2), c[1]), r2)))

\* The body of the loop of lines 124-138 on <<x, y>>.
BrownConradyInverseStep(c, xo, yo, x, y) ==
  Let(Radius2(x, y), LAMBDA r2 :
  Let(Icdist(c, r2), LAMBDA icdist :
  Let(FDiv(x, icdist), LAMBDA xq :
  Let(FDiv(y, icdist), LAMBDA yq :
    <<FMul(FSub(xo, TangentialX(c, 0, xq, yq, r2)), icdist),
      FMul(FSub(yo, TangentialY(c, 0, xq, yq, r2)), icdist)>>))))

\* The body of the loop of lines 143-155 on <<x, y>>.
BrownConradyStep(c, xo, yo, x, y) ==
  Let(Radius2(x, y), LAMBDA r2 :
  Let(Icdist(c, r2), LAMBDA icdist :
    <<FMul(FSub(xo, TangentialX(c, 0, x, y, r2)), icdist),
      FMul(FSub(yo, TangentialY(c, 0, x, y, r2)), icdist)>>))

\* for _ in 0..n (line 124)
RECURSIVE DeprojectBrownConradyInverse(_, _, _, _, _)
DeprojectBrownConradyInverse(c, xo, yo, xy, n) ==
  IF n = 0 THEN xy
  ELSE Let(BrownConradyInverseStep(c, xo, yo, xy[1], xy[2]), LAMBDA next :
         DeprojectBrownConradyInverse(c, xo, yo, next, n - 1))

\* for _ in 0..n (line 143)
RECURSIVE DeprojectBrownConrady(_, _, _, _, _)
DeprojectBrownConrady(c, xo, yo, xy, n) ==
  IF n = 0 THEN xy
  ELSE Let(BrownConradyStep(c, xo, yo, xy[1], xy[2]), LAMBDA next :
         DeprojectBrownConrady(c, xo, yo, next, n - 1))

\* 1 + theta2 (3 k0 + theta2 (5 k1 + theta2 (7 k2 + 9 theta2 k3)))
KannalaBrandtDeriv(c, theta2) ==
  FAdd(One,
    FMul(theta2,
      FAdd(FMul(I2F(3), c[1]),
        FMul(theta2,
          FAdd(FMul(I2F(5), c[2]),
            FMul(theta2,
              FAdd(FMul(I2F(7), c[3]),
                   FMul(FMul(I2F(9), theta2), c[4]))))))))

\* The Newton loop of lines 165-188, n iterations left; the result is theta.
RECURSIVE DeprojectKannalaBrandt(_, _, _, _)
DeprojectKannalaBrandt(c, rd, theta, n) ==
  IF n = 0 THEN theta
  ELSE Let(FMul(theta, theta), LAMBDA theta2 :
       Let(FSub(KannalaBrandtPoly(c, theta, theta2), rd), LAMBDA f :
         IF (~IsNaN(f)) /\ FAbs(f) < F32_EPSILON THEN theta
         ELSE Let(FSub(theta, FDiv(f, KannalaBrandtDeriv(c, theta2))),
                  LAMBDA next : DeprojectKannalaBrandt(c, rd, next, n - 1))))

\* Lines 158-191
UndistortKannalaBrandt(c, x, y) ==
  Let(FloorEps(FSqrt(Radius2(x, y))), LAMBDA rd :
    Rescale(x, y, FTan(DeprojectKannalaBrandt(c, rd, rd, 4)), rd))

\* Lines 194-200
UndistortFThetaFisheye(c, x, y) ==
  Let(FloorEps(FSqrt(Radius2(x, y))), LAMBDA rd :
    Rescale(x, y,
      FDiv(FTan(FMul(c[1], rd)), FAtan(FMul(Two, FTan(FDiv(c[1], Two))))),
      rd))

\* The match of rs2_deproject_pixel_to_point on normalized <<x, y>>, for the
\* models it supports.
DeprojectUndistort(model, c, x, y) ==
  CASE model = "BrownConradyInverse" ->
         DeprojectBrownConradyInverse(c, x, y, <<x, y>>, 10)
    [] model = "BrownConrady" ->
         DeprojectBrownConrady(c, x, y, <<x, y>>, 10)
    [] model = "KannalaBrandt" -> UndistortKannalaBrandt(c, x, y)
    [] model = "FThetaFisheye" -> UndistortFThetaFisheye(c, x, y)
    [] model = "None" -> <<x, y>>

\* A deprojection that forgets to scale the ray by the depth.
DeprojectUnscaled(intrin, pixel, depth) ==
  IF intrin.model = "BrownConradyModified"
  THEN Panic("Deprojection does not support BrownConradyModified")
  ELSE Let(DeprojectUndistort(intrin.model, intrin.coeffs,
                              FDiv(FSub(pixel[1], intrin.ppx), intrin.fx),
                              FDiv(FSub(pixel[2], intrin.ppy), intrin.fy)),
           LAMBDA u : Ok(<<u[1], u[2], depth>>))

\* A deprojection that takes BrownConradyModified for its inverse model.
DeprojectSupportsModified(intrin, pixel, depth) ==
  Let(DeprojectUndistort(IF intrin.model = "BrownConradyModified"
                         THEN "BrownConradyInverse" ELSE intrin.model,
                         intrin.coeffs,
                         FDiv(FSub(pixel[1], intrin.ppx), intrin.fx),
                         FDiv(FSub(pixel[2], intrin.ppy), intrin.fy)),
      LAMBDA u : Ok(<<FMul(depth, u[1]), FMul(depth, u[2]), depth>>))

rs2_deproject_pixel_to_point(intrin, pixel, depth) ==
  IF intrin.model = "BrownConradyModified"
  THEN Panic("Deprojection does not support BrownConradyModified")
  ELSE Let(DeprojectUndistort(intrin.model, intrin.coeffs,
                              FDiv(FSub(pixel[1], intrin.ppx), intrin.fx),
                              FDiv(FSub(pixel[2], intrin.ppy), intrin.fy)),
           LAMBDA u : Ok(<<FMul(depth, u[1]), FMul(depth, u[2]), depth>>))

\* R p + t with the rotation read row by row: R[i][j] = rotation[3 i + j].
TransformRowMajor(extrin, from_point) ==
  LET rot == extrin.rotation
      tl == extrin.translation
      row(a, b, c, t) ==
        FAdd(FAdd(FAdd(FMul(rot[a], from_point[1]), FMul(rot[b], from_point[2])),
                  FMul(rot[c], from_point[3])), tl[t])
  IN <<row(1, 2, 3, 1), row(4, 5, 6, 2), row(7, 8, 9, 3)>>

rs2_transform_point_to_point(extrin, from_point) ==
  LET rot == extrin.rotation
      tl == extrin.translation
      row(a, b, c, t) ==
        FAdd(FAdd(FAdd(FMul(rot[a], from_point[1]), FMul(rot[b], from_point[2])),
                  FMul(rot[c], from_point[3])), tl[t])
  IN <<row(1, 4, 7, 1), row(2, 5, 8, 2), row(3, 6, 9, 3)>>

\* ------------------------------------------------------ ImagePointCloud

\* Option<T>: None, or Some(v).
None == <<>>

Some(v) == <<v>>

Min(a, b) == IF a < b THEN a ELSE b

\* A constructor that forgets to compare the colors' length.
ImagePointCloud_newNoColorCheck(valid, position, color, width) ==
  IF Len(valid) # Len(position)
  THEN Panic("assertion failed: valid.len() == position.len()")
  ELSE IF width = 0
  THEN Panic("attempt to calculate the remainder with a divisor of zero")
  ELSE IF Len(valid) % width # 0
  THEN Panic("assertion failed: valid.len() % width == 0")
  ELSE Ok([valid |-> valid, position |-> position, color |-> color,
           width |-> width])

ImagePointCloud_new(valid, position, color, width) ==
  IF Len(valid) # Len(position)
  THEN Panic("assertion failed: valid.len() == position.len()")
  ELSE IF Len(valid) # Len(color)
  THEN Panic("assertion failed: valid.len() == color.len()")
  ELSE IF width = 0
  THEN Panic("attempt to calculate the remainder with a divisor of zero")
  ELSE IF Len(valid) % width # 0
  THEN Panic("assertion failed: valid.len() % width == 0")
  ELSE Ok([valid |-> valid, position |-> position, color |-> color,
           width |-> width])

\* #[derive(Default)]: empty vectors and width 0.
ImagePointCloud_default ==
  [valid |-> <<>>, position |-> <<>>, color |-> <<>>, width |-> 0]

\* An iterator that yields every pixel, valid or not.
iter_pixelsUnfiltered(self) ==
  [i \in 1..Min(Min(Len(self.position), Len(self.color)), Len(self.valid)) |->
     Some(<<self.position[i], self.color[i]>>)]

\* The items of the iterator, in order: zip stops at the shortest vector.
iter_pixels(self) ==
  [i \in 1..Min(Min(Len(self.position), Len(self.color)), Len(self.valid)) |->
     IF self.valid[i] THEN Some(<<self.position[i], self.color[i]>>) ELSE None]

height(self) ==
  IF self.width = 0 THEN Panic("attempt to divide by zero")
  ELSE Ok(Len(self.valid) \div self.width)

width(self) == self.width

position(self) == self.position

color(self) == self.color

valid(self) == self.valid

\* ------------------------------------------------------------ alignment

Half == Scale \div 2

\* [0; 3]
DefaultColor == <<0, 0, 0>>

\* A slice index: the element, or the panic of an index out of range.
Index(buf, i) ==
  IF i >= 0 /\ i < Len(buf) THEN Ok(buf[i + 1])
  ELSE Panic("index out of bounds")

\* A mapping that truncates the projected pixel without adding 0.5.
OtherPixelTruncated(depth_to_other, other_intrin, depth_point) ==
  Let(rs2_project_point_to_pixel(other_intrin,
        rs2_transform_point_to_point(depth_to_other, depth_point)),
      LAMBDA other_pixel : <<F2I32(other_pixel[1]), F2I32(other_pixel[2])>>)

\* Lines 246-249 and 255-258: a deprojected point mapped onto the other
\* image, rounded.
OtherPixel(depth_to_other, other_intrin, depth_point) ==
  Let(rs2_project_point_to_pixel(other_intrin,
        rs2_transform_point_to_point(depth_to_other, depth_point)),
      LAMBDA other_pixel :
        <<F2I32(FAdd(other_pixel[1], Half)), F2I32(FAdd(other_pixel[2], Half))>>)

\* Lines 243-249 and 252-258: the corner of depth pixel <<depth_x, depth_y>>
\* moved by off (-0.5 or +0.5) mapped onto the other image, rounded.
Corner(depth_intrin, depth_to_other, other_intrin, depth_x, depth_y, off, depth) ==
  Let(rs2_deproject_pixel_to_point(depth_intrin,
        <<FAdd(I2F(depth_x), off), FAdd(I2F(depth_y), off)>>, I2F(depth)),
      LAMBDA depth_point :
        IF depth_point.panic THEN depth_point
        ELSE Ok(OtherPixel(depth_to_other, other_intrin, depth_point.val)))

\* A test that forgets the upper bounds.
OutOfBoundsLowerOnly(other_x0, other_y0, other_x1, other_y1, color_width, color_height) ==
  \/ other_x0 < 0
  \/ other_y0 < 0

\* A test whose upper bounds are off by one.
OutOfBoundsOffByOne(other_x0, other_y0, other_x1, other_y1, color_width, color_height) ==
  \/ other_x0 < 0
  \/ other_y0 < 0
  \/ other_x1 > color_width
  \/ other_y1 > color_height

\* Lines 260-266: the test that skips a depth pixel.
OutOfBounds(other_x0, other_y0, other_x1, other_y1, color_width, color_height) ==
  \/ other_x0 < 0
  \/ other_y0 < 0
  \/ other_x1 >= color_width
  \/ other_y1 >= color_height

\* The same cells visited from the last to the first.
RectangleReversed(other_x0, other_y0, other_x1, other_y1) ==
  IF other_x1 < other_x0 \/ other_y1 < other_y0 THEN <<>>
  ELSE LET nx == other_x1 - other_x0 + 1
           ny == other_y1 - other_y0 + 1
       IN [k \in 1..(nx * ny) |->
             <<other_x0 + ((nx * ny - k) % nx), other_y0 + ((nx * ny - k) \div nx)>>]

\* The <<x, y>> the loops of lines 269-270 visit, in the order visited.
Rectangle(other_x0, other_y0, other_x1, other_y1) ==
  IF other_x1 < other_x0 \/ other_y1 < other_y0 THEN <<>>
  ELSE LET nx == other_x1 - other_x0 + 1
           ny == other_y1 - other_y0 + 1
       IN [k \in 1..(nx * ny) |->
             <<other_x0 + ((k - 1) % nx), other_y0 + ((k - 1) \div nx)>>]

\* A transfer that writes the sample into the output element after the
\* depth pixel's own.
RECURSIVE TransferToNeighbour(_, _, _, _, _, _)
TransferToNeighbour(input_img, output_img, depth_pixel_index, color_width, cells, k) ==
  IF k > Len(cells) THEN Ok(output_img)
  ELSE Let(Index(input_img, cells[k][2] * color_width + cells[k][1]),
           LAMBDA src :
             IF src.panic THEN src
             ELSE IF Index(output_img, depth_pixel_index).panic
             THEN Panic("index out of bounds")
             ELSE TransferToNeighbour(input_img,
                    [output_img EXCEPT
                       ![((depth_pixel_index + 1) % Len(output_img)) + 1] =
                         src.val],
                    depth_pixel_index, color_width, cells, k + 1))

\* Lines 271-273 for the cells from the k-th on.
RECURSIVE Transfer(_, _, _, _, _, _)
Transfer(input_img, output_img, depth_pixel_index, color_width, cells, k) ==
  IF k > Len(cells) THEN Ok(output_img)
  ELSE Let(Index(input_img, cells[k][2] * color_width + cells[k][1]),
           LAMBDA src :
             IF src.panic THEN src
             ELSE IF Index(output_img, depth_pixel_index).panic
             THEN Panic("index out of bounds")
             ELSE Transfer(input_img,
                    [output_img EXCEPT ![depth_pixel_index + 1] = src.val],
                    depth_pixel_index, color_width, cells, k + 1))

\* Lines 260-275, given the two corners or the panic that came instead.
Splat(a, b, other_intrin, input_img, output_img, depth_pixel_index) ==
  IF a.panic THEN a
  ELSE IF b.panic THEN b
  ELSE IF OutOfBounds(a.val[1], a.val[2], b.val[1], b.val[2],
                      other_intrin.width, other_intrin.height)
  THEN Ok(output_img)
  ELSE Transfer(input_img, output_img, depth_pixel_index, other_intrin.width,
                Rectangle(a.val[1], a.val[2], b.val[1], b.val[2]), 1)

\* A pass that does not skip a depth of zero.
AlignPixelNoZeroSkip(depth_intrin, depth_to_other, other_intrin, depth, input_img, output_img, depth_pixel_index) ==
  Let(Index(depth, depth_pixel_index), LAMBDA d :
    IF d.panic THEN d
    ELSE Let(Corner(depth_intrin, depth_to_other, other_intrin,
                    depth_pixel_index % depth_intrin.width,
                    depth_pixel_index \div depth_intrin.width,
                    0 - Half, d.val), LAMBDA a :
         Let(Corner(depth_intrin, depth_to_other, other_intrin,
                    depth_pixel_index % depth_intrin.width,
                    depth_pixel_index \div depth_intrin.width,
                    Half, d.val), LAMBDA b :
           Splat(a, b, other_intrin, input_img, output_img,
                 depth_pixel_index))))

\* One pass of the body of the loops of align_images (lines 234-275): the
\* output image after it, or the panic that leaves it.
AlignPixel(depth_intrin, depth_to_other, other_intrin, depth, input_img, output_img, depth_pixel_index) ==
  Let(Index(depth, depth_pixel_index), LAMBDA d :
    IF d.panic THEN d
    ELSE IF d.val = 0 THEN Ok(output_img)
    ELSE Let(Corner(depth_intrin, depth_to_other, other_intrin,
                    depth_pixel_index % depth_intrin.width,
                    depth_pixel_index \div depth_intrin.width,
                    0 - Half, d.val), LAMBDA a :
         Let(Corner(depth_intrin, depth_to_other, other_intrin,
                    depth_pixel_index % depth_intrin.width,
                    depth_pixel_index \div depth_intrin.width,
                    Half, d.val), LAMBDA b :
           Splat(a, b, other_intrin, input_img, output_img,
                 depth_pixel_index))))

\* align_images (lines 231-277) from depth pixel depth_pixel_index on: the
\* output image when it returns, or the panic that leaves it.
RECURSIVE align_images(_, _, _, _, _, _, _)
align_images(depth_intrin, depth_to_other, other_intrin, depth, input_img, output_img, depth_pixel_index) ==
  IF depth_pixel_index >= depth_intrin.width * depth_intrin.height
  THEN Ok(output_img)
  ELSE Let(AlignPixel(depth_intrin, depth_to_other, other_intrin, depth,
                      input_img, output_img, depth_pixel_index), LAMBDA r :
         IF r.panic THEN r
         ELSE align_images(depth_intrin, depth_to_other, other_intrin, depth,
                           input_img, r.val, depth_pixel_index + 1))

\* --------------------------------------------------------- capture loop

\* Lines 407-420: the positions pushed from pixel_idx on, or the panic.
RECURSIVE BuildPositions(_, _, _, _, _)
BuildPositions(depth_intrinsics, in_depth_buf, w, h, pixel_idx) ==
  IF pixel_idx >= w * h THEN Ok(<<>>)
  ELSE Let(Index(in_depth_buf, pixel_idx), LAMBDA d :
         IF d.panic THEN d
         ELSE Let(rs2_deproject_pixel_to_point(depth_intrinsics,
                    <<FSub(I2F(pixel_idx % w), Half),
                      FSub(I2F(pixel_idx \div w), Half)>>,
                    I2F(d.val)), LAMBDA pt :
                IF pt.panic THEN pt
                ELSE Let(BuildPositions(depth_intrinsics, in_depth_buf, w, h,
                                        pixel_idx + 1), LAMBDA more :
                       IF more.panic THEN more
                       ELSE Ok(<<pt.val>> \o more.val))))

\* Line 406
BuildValid(in_depth_buf) ==
  [i \in 1..Len(in_depth_buf) |-> in_depth_buf[i] # 0]

\* A builder that walks the depth image's rows instead of the color's.
BuildCloudDepthWidth(depth_intrinsics, color_intrinsics, in_depth_buf, out_color_buf) ==
  Let(BuildPositions(depth_intrinsics, in_depth_buf,
                     depth_intrinsics.width, depth_intrinsics.height, 0),
      LAMBDA pos :
        IF pos.panic THEN pos
        ELSE ImagePointCloud_new(BuildValid(in_depth_buf), pos.val,
                                 out_color_buf, depth_intrinsics.width))

\* Lines 405-422: the point cloud of the frame in the buffers, or the panic.
BuildCloud(depth_intrinsics, color_intrinsics, in_depth_buf, out_color_buf) ==
  Let(BuildPositions(depth_intrinsics, in_depth_buf,
                     color_intrinsics.width, color_intrinsics.height, 0),
      LAMBDA pos :
        IF pos.panic THEN pos
        ELSE ImagePointCloud_new(BuildValid(in_depth_buf), pos.val,
                                 out_color_buf, color_intrinsics.width))

\* Bounds of the model.
MaxFrames == 2

Intrinsics(w, h, ppx, ppy, fx, fy, model, coeffs) ==
  [width |-> w, height |-> h, ppx |-> ppx, ppy |-> ppy, fx |-> fx, fy |-> fy,
   model |-> model, coeffs |-> coeffs]

NoCoeffs == <<0, 0, 0, 0, 0>>

\* Calibrations the streams may report (depth_stream.intrinsics(), line 366).
DepthIntrinsicsSet ==
  {Intrinsics(2, 1, Half, Half, One, One, "None", NoCoeffs),
   Intrinsics(2, 2, Half, Half, One, One, "None", NoCoeffs),
   Intrinsics(2, 1, Half, Half, One, One, "BrownConradyModified", NoCoeffs),
   Intrinsics(2, 1, One, Half, One, One, "BrownConrady", <<410, 0, 0, 0, 0>>)}

\* color_stream.intrinsics(), line 368
ColorIntrinsicsSet ==
  {Intrinsics(2, 1, Half, Half, One, One, "None", NoCoeffs),
   Intrinsics(2, 2, Half, Half, One, One, "None", NoCoeffs),
   Intrinsics(1, 2, Half, Half, One, One, "None", NoCoeffs),
   Intrinsics(3, 3, One + Half, One, Two, Two, "BrownConradyModified",
              <<410, 0, 0, 0, 0>>)}

Extrinsics(rotation, translation) ==
  [rotation |-> rotation, translation |-> translation]

IdentityRotation == <<One, 0, 0, 0, One, 0, 0, 0, One>>

FlipXRotation == <<0 - One, 0, 0, 0, One, 0, 0, 0, One>>

\* A camera mounted upside down: half a turn about the optical axis.
HalfTurnRotation == <<0 - One, 0, 0, 0, 0 - One, 0, 0, 0, One>>

\* depth_stream.extrinsics(color_stream), line 367
ExtrinsicsSet ==
  {Extrinsics(IdentityRotation, <<0, 0, 0>>),
   Extrinsics(IdentityRotation, <<I2F(0 - 1000), 0, 0>>),
   Extrinsics(IdentityRotation, <<0, 0, I2F(0 - 1000)>>),
   Extrinsics(FlipXRotation, <<0, 0, 0>>),
   Extrinsics(FlipXRotation, <<I2F(0 - 1000), 0, 0>>),
   Extrinsics(HalfTurnRotation, <<I2F(0 - 1000), I2F(0 - 1000), 0>>)}

\* The u16 samples a depth frame may hold.
DepthValues == {0, 1000}

\* The depth frames of a stream: one sample per pixel of its resolution.
DepthFrames(intrin) == [1..(intrin.width * intrin.height) -> DepthValues]

Palette ==
  <<<<255, 0, 0>>, <<0, 255, 0>>, <<0, 0, 255>>,
    <<255, 255, 0>>, <<0, 255, 255>>, <<255, 0, 255>>,
    <<128, 0, 0>>, <<0, 128, 0>>, <<0, 0, 128>>>>

\* The color frames of a stream, already as [r, g, b] (line 390).
ColorFrames(intrin) ==
  {[i \in 1..(intrin.width * intrin.height) |-> Palette[i]]}

VARIABLES
  depth_intrinsics,           \* line 366
  depth_to_color_extrinsics,  \* line 367
  color_intrinsics,           \* line 368
  in_color_buf,               \* line 370
  in_depth_buf,               \* line 371
  out_color_buf,              \* line 372
  pc,                         \* where the capture worker is in its loop
  depth_pixel_index,          \* the pixel align_images comes to next
  pcld_data,                  \* line 422, None before it
  chan,                       \* the channel of spawn_realsense_thread
  panic_msg,                  \* the panic that ended the worker, None before
  frames,                     \* frames captured so far
  call,                       \* the arguments of a call made from outside
  cloud,                      \* the ImagePointCloud such a caller holds
  ret,                        \* what the last such call returned
  render_tx,                  \* the messages MyApp has sent to the renderer
  view3d                      \* the Viewport3d: what it took and uploaded

vars ==
  <<depth_intrinsics, depth_to_color_extrinsics, color_intrinsics,
    in_color_buf, in_depth_buf, out_color_buf, pc, depth_pixel_index,
    pcld_data, chan, panic_msg, frames, call, cloud, ret, render_tx,
    view3d>>

\* The state of a caller of the library other than the capture loop.
caller == <<call, cloud, ret>>

\* Vertex::new(pos.into(), color.map(|c| c as f32 / 256.0))
Vertex(pos, rgb) ==
  [pos |-> pos, color |-> [k \in 1..3 |-> FDiv(I2F(rgb[k]), I2F(256))]]

\* .filter_map(|x| x).map(...).collect(): the vertices of the valid pixels.
RECURSIVE Collect(_, _)
Collect(items, k) ==
  IF k > Len(items) THEN <<>>
  ELSE IF items[k] = None THEN Collect(items, k + 1)
  ELSE <<Vertex(items[k][1][1], items[k][1][2])>> \o Collect(items, k + 1)

\* The RenderMsg of MyApp::update for a message of the camera channel.
\* frame, the number of the frame it was built from, is carried along to
\* tell the frames apart.
RenderMsg(m) ==
  [frame |-> m.frame, points |-> Collect(iter_pixels(m.cloud), 1),
   lines |-> <<>>]

\* The RenderMsg of MyApp::new.
GridMsg == [frame |-> 0, points |-> <<>>, lines |-> <<"default_grid">>]

\* Viewport3d::new (view3d.rs:84-181): one point and fifty line vertices,
\* all zero, are uploaded; rx counts the messages taken from the channel.
Viewport3d_new ==
  [rx |-> 0,
   point_buf |-> <<Vertex(<<0, 0, 0>>, <<0, 0, 0>>)>>,
   line_buf |-> <<"zeros">>]

calibration ==
  <<depth_intrinsics, depth_to_color_extrinsics, color_intrinsics>>

\* realsense_mainloop up to the loop (lines 332-374).
Init ==
  /\ depth_intrinsics \in DepthIntrinsicsSet
  /\ depth_to_color_extrinsics \in ExtrinsicsSet
  /\ color_intrinsics \in ColorIntrinsicsSet
  /\ in_color_buf = <<>>
  /\ in_depth_buf = <<>>
  /\ out_color_buf = <<>>
  /\ pc = "wait"
  /\ depth_pixel_index = 0
  /\ pcld_data = None
  /\ chan = <<>>
  /\ panic_msg = None
  /\ frames = 0
  /\ call = None
  /\ cloud = None
  /\ ret = None
  /\ render_tx = <<GridMsg>>
  /\ view3d = Viewport3d_new

\* A failure that is logged and leaves the worker waiting for a frame.
DieAndRetry(msg) ==
  /\ pc' = "wait"
  /\ panic_msg' = Some(msg)

\* The worker thread unwinds: its locals are dropped.
Die(msg) ==
  /\ pc' = "dead"
  /\ panic_msg' = Some(msg)

\* Line 376: no frame within the timeout, and unwrap panics.
WaitTimeout ==
  /\ pc = "wait"
  /\ Die("called Result::unwrap() on an Err value")
  /\ UNCHANGED <<calibration, in_color_buf, in_depth_buf, out_color_buf,
                 depth_pixel_index, pcld_data, chan, frames, caller,
                 render_tx, view3d>>

\* Lines 376-392 with a pixel that is not Z16 / Bgr8: the buffers were
\* cleared, and the panic leaves what was read before the pixel.
BadPixel ==
  /\ pc = "wait"
  /\ frames < MaxFrames
  /\ \E depth_frame \in DepthFrames(depth_intrinsics),
        color_frame \in ColorFrames(color_intrinsics),
        in_depth \in BOOLEAN :
        \E k \in 0..((IF in_depth THEN Len(depth_frame) ELSE Len(color_frame)) - 1) :
          /\ in_depth_buf' = IF in_depth THEN SubSeq(depth_frame, 1, k) ELSE depth_frame
          /\ in_color_buf' = IF in_depth THEN <<>> ELSE SubSeq(color_frame, 1, k)
  /\ out_color_buf' = <<>>
  /\ Die("unexpected pixel format")
  /\ UNCHANGED <<calibration, depth_pixel_index, pcld_data, chan, frames,
                 caller,
                 render_tx, view3d>>

\* An iteration that resizes the aligned buffer without clearing it: what
\* the frame before left in it stays.
WaitFramesKeepsOutput ==
  /\ pc = "wait"
  /\ frames < MaxFrames
  /\ \E depth_frame \in DepthFrames(depth_intrinsics),
        color_frame \in ColorFrames(color_intrinsics) :
        /\ in_depth_buf' = depth_frame
        /\ in_color_buf' = color_frame
        /\ out_color_buf' =
             [i \in 1..Len(depth_frame) |->
                IF i <= Len(out_color_buf) THEN out_color_buf[i]
                ELSE DefaultColor]
  /\ frames' = frames + 1
  /\ depth_pixel_index' = 0
  /\ pc' = "align"
  /\ UNCHANGED <<calibration, pcld_data, chan, panic_msg, caller,
                 render_tx, view3d>>

\* Lines 376-394: a frame pair arrives and fills the buffers.
WaitFrames ==
  /\ pc = "wait"
  /\ frames < MaxFrames
  /\ \E depth_frame \in DepthFrames(depth_intrinsics),
        color_frame \in ColorFrames(color_intrinsics) :
        /\ in_depth_buf' = depth_frame
        /\ in_color_buf' = color_frame
        /\ out_color_buf' = [i \in 1..Len(depth_frame) |-> DefaultColor]
  /\ frames' = frames + 1
  /\ depth_pixel_index' = 0
  /\ pc' = "align"
  /\ UNCHANGED <<calibration, pcld_data, chan, panic_msg, caller,
                 render_tx, view3d>>

\* An alignment that steps over a pixel whose pass panicked.
AlignStepIgnoresPanic ==
  /\ pc = "align"
  /\ depth_pixel_index < depth_intrinsics.width * depth_intrinsics.height
  /\ \E r \in {AlignPixel(depth_intrinsics, depth_to_color_extrinsics,
                            color_intrinsics, in_depth_buf, in_color_buf,
                            out_color_buf, depth_pixel_index)} :
        /\ out_color_buf' = IF r.panic THEN out_color_buf ELSE r.val
        /\ depth_pixel_index' = depth_pixel_index + 1
        /\ UNCHANGED <<pc, panic_msg>>
  /\ UNCHANGED <<calibration, in_color_buf, in_depth_buf, pcld_data, chan,
                 frames, caller,
                 render_tx, view3d>>

\* align_images (lines 231-277), one depth pixel per step.
AlignStep ==
  /\ pc = "align"
  /\ depth_pixel_index < depth_intrinsics.width * depth_intrinsics.height
  /\ \E r \in {AlignPixel(depth_intrinsics, depth_to_color_extrinsics,
                            color_intrinsics, in_depth_buf, in_color_buf,
                            out_color_buf, depth_pixel_index)} :
        IF r.panic
        THEN /\ Die(r.msg)
             /\ UNCHANGED <<out_color_buf, depth_pixel_index>>
        ELSE /\ out_color_buf' = r.val
             /\ depth_pixel_index' = depth_pixel_index + 1
             /\ UNCHANGED <<pc, panic_msg>>
  /\ UNCHANGED <<calibration, in_color_buf, in_depth_buf, pcld_data, chan,
                 frames, caller,
                 render_tx, view3d>>

\* align_images returns (line 403).
AlignDone ==
  /\ pc = "align"
  /\ depth_pixel_index >= depth_intrinsics.width * depth_intrinsics.height
  /\ pc' = "convert"
  /\ UNCHANGED <<calibration, in_color_buf, in_depth_buf, out_color_buf,
                 depth_pixel_index, pcld_data, chan, panic_msg, frames,
                 caller,
                 render_tx, view3d>>

\* Lines 405-422
Convert ==
  /\ pc = "convert"
  /\ \E r \in {BuildCloud(depth_intrinsics, color_intrinsics, in_depth_buf,
                            out_color_buf)} :
        IF r.panic
        THEN /\ Die(r.msg)
             /\ UNCHANGED pcld_data
        ELSE /\ pcld_data' = Some(r.val)
             /\ pc' = "callback"
             /\ UNCHANGED panic_msg
  /\ UNCHANGED <<calibration, in_color_buf, in_depth_buf, out_color_buf,
                 depth_pixel_index, chan, frames, caller,
                 render_tx, view3d>>

\* A hand-off that waits until the consumer has emptied the channel.
CallbackWaitsForConsumer ==
  /\ pc = "callback"
  /\ chan = <<>>
  /\ chan' = Append(chan, [frame |-> frames, cloud |-> pcld_data[1]])
  /\ pc' = "wait"
  /\ UNCHANGED <<calibration, in_color_buf, in_depth_buf, out_color_buf,
                 depth_pixel_index, pcld_data, panic_msg, frames, caller,
                 render_tx, view3d>>

\* Line 424 with the callback of spawn_realsense_thread: tx.send(x).
Callback ==
  /\ pc = "callback"
  /\ chan' = Append(chan, [frame |-> frames, cloud |-> pcld_data[1]])
  /\ pc' = "wait"
  /\ UNCHANGED <<calibration, in_color_buf, in_depth_buf, out_color_buf,
                 depth_pixel_index, pcld_data, panic_msg, frames, caller,
                 render_tx, view3d>>

\* An update that sends an empty RenderMsg when no point cloud is queued.
UpdateClearsWhenIdle ==
  /\ IF chan = <<>>
     THEN /\ render_tx' =
               Append(render_tx, [frame |-> frames, points |-> <<>>, lines |-> <<>>])
          /\ UNCHANGED chan
     ELSE /\ chan' = <<>>
          /\ render_tx' = Append(render_tx, RenderMsg(chan[Len(chan)]))
  /\ UNCHANGED <<calibration, in_color_buf, in_depth_buf, out_color_buf, pc,
                 depth_pixel_index, pcld_data, panic_msg, frames, caller,
                 view3d>>

\* An update that takes one message and renders it.
UpdatePopsOne ==
  /\ IF chan = <<>>
     THEN UNCHANGED <<chan, render_tx>>
     ELSE /\ chan' = Tail(chan)
          /\ render_tx' = Append(render_tx, RenderMsg(Head(chan)))
  /\ UNCHANGED <<calibration, in_color_buf, in_depth_buf, out_color_buf, pc,
                 depth_pixel_index, pcld_data, panic_msg, frames, caller,
                 view3d>>

\* MyApp::update (lines 189-206): camera_rx.try_iter().last() takes every
\* queued message and keeps the last; a RenderMsg is sent for it.
Update ==
  /\ IF chan = <<>>
     THEN UNCHANGED <<chan, render_tx>>
     ELSE /\ chan' = <<>>
          /\ render_tx' = Append(render_tx, RenderMsg(chan[Len(chan)]))
  /\ UNCHANGED <<calibration, in_color_buf, in_depth_buf, out_color_buf, pc,
                 depth_pixel_index, pcld_data, panic_msg, frames, caller,
                 view3d>>

\* Viewport3d::paint (view3d.rs:192-215): self.rx.try_iter().last() takes
\* every message sent since the last paint; the geometry of the last is
\* uploaded, and without a message the buffers stay as they are.
Paint ==
  /\ IF view3d.rx < Len(render_tx)
     THEN view3d' = [rx |-> Len(render_tx),
                     point_buf |-> render_tx[Len(render_tx)].points,
                     line_buf |-> render_tx[Len(render_tx)].lines]
     ELSE UNCHANGED view3d
  /\ UNCHANGED <<calibration, in_color_buf, in_depth_buf, out_color_buf, pc,
                 depth_pixel_index, pcld_data, chan, panic_msg, frames,
                 caller, render_tx>>

Next ==
  \/ WaitTimeout
  \/ BadPixel
  \/ WaitFrames
  \/ AlignStep
  \/ AlignDone
  \/ Convert
  \/ Callback
  \/ Update
  \/ Paint

Spec == Init /\ [][Next]_vars

\* ------------------------------------------------- the capture pipeline

\* The frame in the buffers has been aligned.
Aligned == pc \in {"convert", "callback"}

\* The two corners align_images computes for depth pixel i (0-based).
CornerA(i) ==
  Corner(depth_intrinsics, depth_to_color_extrinsics, color_intrinsics,
         i % depth_intrinsics.width, i \div depth_intrinsics.width,
         0 - Half, in_depth_buf[i + 1])

CornerB(i) ==
  Corner(depth_intrinsics, depth_to_color_extrinsics, color_intrinsics,
         i % depth_intrinsics.width, i \div depth_intrinsics.width,
         Half, in_depth_buf[i + 1])

\* A pixel coordinate outside the color image.
Outside(p) ==
  \/ p[1] < 0
  \/ p[2] < 0
  \/ p[1] >= color_intrinsics.width
  \/ p[2] >= color_intrinsics.height

\* C1: a depth sample of 0 is "no measurement": the aligned color of such a
\* pixel is the default color, and the point cloud built from the frame
\* marks the pixel invalid and carries the default color for it.
C1_ZeroDepthSentinel ==
  /\ \A i \in 1..Len(out_color_buf) :
       in_depth_buf[i] = 0 => out_color_buf[i] = DefaultColor
  /\ pc = "callback" =>
       \A i \in 1..Len(in_depth_buf) :
         in_depth_buf[i] = 0 =>
           /\ ~pcld_data[1].valid[i]
           /\ pcld_data[1].color[i] = DefaultColor

\* A cloud is built from a frame with a zero sample and a colored pixel.
C1_Witness ==
  /\ pc = "callback"
  /\ \E i \in 1..Len(in_depth_buf) : in_depth_buf[i] = 0
  /\ \E j \in 1..Len(in_depth_buf) :
       in_depth_buf[j] # 0 /\ pcld_data[1].color[j] # DefaultColor

\* The calibration and frame of the worked example: two identical
\* 2x1 undistorted cameras with fx = fy = 1 and ppx = ppy = 0.5, no
\* displacement, depths [1000, 0], colors [[255,0,0], [0,255,0]].
IsExample ==
  /\ depth_intrinsics = Intrinsics(2, 1, Half, Half, One, One, "None", NoCoeffs)
  /\ color_intrinsics = depth_intrinsics
  /\ depth_to_color_extrinsics = Extrinsics(IdentityRotation, <<0, 0, 0>>)
  /\ in_depth_buf = <<1000, 0>>
  /\ in_color_buf = <<<<255, 0, 0>>, <<0, 255, 0>>>>

\* C6 as stated: an unsupported deprojection comes back as an error value
\* and does not end the capture worker.
C6_WorkerSurvives ==
  ~(/\ pc = "dead"
    /\ panic_msg = Some("Deprojection does not support BrownConradyModified"))

\* C6, amended: with a depth stream of model BrownConradyModified the
\* deprojection panics and the panic ends the worker: alignment never gets
\* past a measured pixel, and no cloud is ever built or sent.
C6_PanicEndsWorker ==
  depth_intrinsics.model = "BrownConradyModified" =>
    /\ pc \in {"wait", "align", "convert", "dead"}
    /\ pcld_data = None
    /\ chan = <<>>
    /\ \A i \in 1..depth_pixel_index : in_depth_buf[i] = 0
    /\ frames > 0 /\ pc = "wait" => FALSE

\* The worker died of the unsupported deprojection.
C6_Witness ==
  /\ depth_intrinsics.model = "BrownConradyModified"
  /\ pc = "dead"
  /\ panic_msg = Some("Deprojection does not support BrownConradyModified")

\* C7: once a measured depth pixel has been aligned, if either corner of
\* its footprint lies outside the color image, its output color is still
\* the default.
C7_AlignmentBounds ==
  pc \in {"align", "convert", "callback"} =>
    \A i \in 0..(depth_pixel_index - 1) :
      (/\ in_depth_buf[i + 1] # 0
       /\ Outside(CornerA(i).val) \/ Outside(CornerB(i).val))
      => out_color_buf[i + 1] = DefaultColor

\* A measured pixel was aligned whose first corner alone is outside: it is
\* beyond the right edge, the second corner is inside, and the test of
\* align_images does not skip the pixel.
C7_Witness ==
  /\ pc = "convert"
  /\ \E i \in 0..(depth_pixel_index - 1) :
       /\ in_depth_buf[i + 1] # 0
       /\ CornerA(i).val[1] >= color_intrinsics.width
       /\ ~Outside(CornerB(i).val)
       /\ ~OutOfBounds(CornerA(i).val[1], CornerA(i).val[2],
                       CornerB(i).val[1], CornerB(i).val[2],
                       color_intrinsics.width, color_intrinsics.height)

\* |a - b| <= tol
Near(a, b, tol) == IsFinite(a) /\ IsFinite(b) /\ Abs(a - b) <= tol

\* C8 as stated: in the worked example the cloud has pixel 0 valid at
\* about [-0.5, -0.5, 1000] and pixel 1 invalid.
C8_ExamplePosition ==
  IsExample /\ pc = "callback" =>
    /\ pcld_data[1].valid = <<TRUE, FALSE>>
    /\ Near(pcld_data[1].position[1][1], 0 - Half, Half \div 2)
    /\ Near(pcld_data[1].position[1][2], 0 - Half, Half \div 2)
    /\ Near(pcld_data[1].position[1][3], I2F(1000), Half \div 2)

\* C8, amended: in the worked example the cloud has pixel 0 valid at
\* [-1000, -1000, 1000] (the ray (-1, -1, 1) scaled by the depth) and
\* pixel 1 invalid.
C8_ExamplePositionScaled ==
  IsExample /\ pc = "callback" =>
    /\ pcld_data[1].valid = <<TRUE, FALSE>>
    /\ pcld_data[1].position[1] = <<I2F(0 - 1000), I2F(0 - 1000), I2F(1000)>>

\* The cloud of the worked example has been built.
C8_Witness == IsExample /\ pc = "callback" /\ pcld_data[1].valid[1]

\* C9 as stated: in the worked example the aligned color of pixel 0 is
\* [255, 0, 0] and pixel 1 keeps the default.
C9_ExampleColor ==
  IsExample /\ Aligned =>
    out_color_buf = <<<<255, 0, 0>>, DefaultColor>>

\* C9, amended: in the worked example both aligned colors are the default:
\* the footprint of pixel 0 has corners (0, 0) and (1, 1), and row 1 is
\* outside the one-row color image, so the pixel is skipped.
C9_ExampleColorSkipped ==
  IsExample /\ Aligned =>
    /\ CornerA(0).val = <<0, 0>>
    /\ CornerB(0).val = <<1, 1>>
    /\ out_color_buf = <<DefaultColor, DefaultColor>>
    /\ pc = "callback" => pcld_data[1].color = <<DefaultColor, DefaultColor>>

\* The worked example has been aligned and its cloud built.
C9_Witness == IsExample /\ pc = "callback" /\ Len(out_color_buf) = 2

\* -------------------------------------------- callers of ImagePointCloud

\* Bound on the lengths of the vectors handed to ImagePointCloud::new.
MaxLen == 3

\* Vectors whose i-th element is recognisably the i-th.
Positions(n) == [i \in 1..n |-> <<I2F(i), I2F(0 - i), I2F(1000)>>]

Colors(n) == [i \in 1..n |-> Palette[i]]

\* The arguments a caller may hand to ImagePointCloud::new.
CloudCalls ==
  {[valid |-> v, position |-> Positions(np), color |-> Colors(nc), width |-> w] :
     v \in UNION {[1..n -> BOOLEAN] : n \in 0..MaxLen},
     np \in 0..MaxLen, nc \in 0..MaxLen, w \in 0..MaxLen}

\* No capture worker runs.
NoWorker ==
  /\ depth_intrinsics = Intrinsics(2, 1, Half, Half, One, One, "None", NoCoeffs)
  /\ depth_to_color_extrinsics = Extrinsics(IdentityRotation, <<0, 0, 0>>)
  /\ color_intrinsics = depth_intrinsics
  /\ in_color_buf = <<>>
  /\ in_depth_buf = <<>>
  /\ out_color_buf = <<>>
  /\ pc = "none"
  /\ depth_pixel_index = 0
  /\ pcld_data = None
  /\ chan = <<>>
  /\ panic_msg = None
  /\ frames = 0
  /\ render_tx = <<>>
  /\ view3d = Viewport3d_new

worker ==
  <<calibration, in_color_buf, in_depth_buf, out_color_buf, pc,
    depth_pixel_index, pcld_data, chan, panic_msg, frames, render_tx,
    view3d>>

InitCloud ==
  /\ NoWorker
  /\ call \in CloudCalls
  /\ cloud = None
  /\ ret = None

\* What a call returned, with the function called.
Returned(fn, out) == Some([fn |-> fn, out |-> out])

\* The caller is alive: its last call, if any, did not panic.
Alive == ret = None \/ ~ret[1].out.panic

\* ImagePointCloud::new(valid, position, color, width)
CallNew ==
  /\ cloud = None
  /\ ret = None
  /\ \E r \in {ImagePointCloud_new(call.valid, call.position, call.color,
                                     call.width)} :
        /\ ret' = Returned("new", r)
        /\ cloud' = IF r.panic THEN None ELSE Some(r.val)
  /\ UNCHANGED <<worker, call>>

\* ImagePointCloud::default()
CallDefault ==
  /\ cloud = None
  /\ ret = None
  /\ cloud' = Some(ImagePointCloud_default)
  /\ ret' = Returned("default", Ok(ImagePointCloud_default))
  /\ UNCHANGED <<worker, call>>

CallIterPixels ==
  /\ cloud # None
  /\ Alive
  /\ ret' = Returned("iter_pixels", Ok(iter_pixels(cloud[1])))
  /\ UNCHANGED <<worker, call, cloud>>

CallHeight ==
  /\ cloud # None
  /\ Alive
  /\ ret' = Returned("height", height(cloud[1]))
  /\ UNCHANGED <<worker, call, cloud>>

CallWidth ==
  /\ cloud # None
  /\ Alive
  /\ ret' = Returned("width", Ok(width(cloud[1])))
  /\ UNCHANGED <<worker, call, cloud>>

CallPosition ==
  /\ cloud # None
  /\ Alive
  /\ ret' = Returned("position", Ok(position(cloud[1])))
  /\ UNCHANGED <<worker, call, cloud>>

CallColor ==
  /\ cloud # None
  /\ Alive
  /\ ret' = Returned("color", Ok(color(cloud[1])))
  /\ UNCHANGED <<worker, call, cloud>>

CallValid ==
  /\ cloud # None
  /\ Alive
  /\ ret' = Returned("valid", Ok(valid(cloud[1])))
  /\ UNCHANGED <<worker, call, cloud>>

NextCloud ==
  \/ CallNew
  \/ CallDefault
  \/ CallIterPixels
  \/ CallHeight
  \/ CallWidth
  \/ CallPosition
  \/ CallColor
  \/ CallValid

SpecCloud == InitCloud /\ [][NextCloud]_vars

\* The messages of the assertions of ImagePointCloud::new.
ShapeViolations ==
  {"assertion failed: valid.len() == position.len()",
   "assertion failed: valid.len() == color.len()",
   "assertion failed: valid.len() % width == 0"}

\* C2: ImagePointCloud::new fails with a shape violation and returns no
\* cloud whenever the lengths of valid and position differ, or those of
\* valid and color, or the length of valid is not a multiple of width.
C2_ShapeInvariant ==
  (/\ ret # None
   /\ ret[1].fn = "new"
   /\ \/ Len(call.valid) # Len(call.position)
      \/ Len(call.valid) # Len(call.color)
      \/ call.width # 0 /\ Len(call.valid) % call.width # 0)
  => /\ ret[1].out.panic
     /\ ret[1].out.msg \in ShapeViolations
     /\ cloud = None

\* new was called with vectors of one length that width does not divide,
\* and failed.
C2_Witness ==
  /\ ret # None
  /\ ret[1].fn = "new"
  /\ Len(call.valid) = Len(call.position)
  /\ Len(call.valid) = Len(call.color)
  /\ call.width # 0
  /\ Len(call.valid) % call.width # 0
  /\ ret[1].out.panic

\* C3 as stated: every cloud a caller can hold, from new or from Default,
\* has vectors of one length that width divides, so that height() is
\* defined and height() * width() is the length.
C3_CloudInvariant ==
  cloud # None =>
    /\ Len(cloud[1].valid) = Len(cloud[1].position)
    /\ Len(cloud[1].valid) = Len(cloud[1].color)
    /\ cloud[1].width # 0
    /\ Len(cloud[1].valid) % cloud[1].width = 0
    /\ ~height(cloud[1]).panic
    /\ height(cloud[1]).val * width(cloud[1]) = Len(cloud[1].valid)

\* C4: iter_pixels yields one item per pixel in index order: the i-th is
\* None exactly when valid[i] is false and is otherwise
\* Some((position[i], color[i])); there are len(valid) items.
C4_IterPixels ==
  (ret # None /\ ret[1].fn = "iter_pixels") =>
    /\ Len(ret[1].out.val) = Len(cloud[1].valid)
    /\ \A i \in 1..Len(cloud[1].valid) :
         /\ ret[1].out.val[i] = None <=> ~cloud[1].valid[i]
         /\ cloud[1].valid[i] =>
              ret[1].out.val[i] = Some(<<cloud[1].position[i], cloud[1].color[i]>>)

\* iter_pixels ran over a cloud with a valid and an invalid pixel.
C4_Witness ==
  /\ ret # None
  /\ ret[1].fn = "iter_pixels"
  /\ \E i, j \in 1..Len(cloud[1].valid) :
       cloud[1].valid[i] /\ ~cloud[1].valid[j] /\ i < j

\* --------------------------------------------- callers of the kernel

\* Coefficients of a mildly distorting lens:
\* [0.1, 0.01, 0.005, -0.005, 0.001].
MildCoeffs == <<410, 41, 20, 0 - 20, 4>>

\* The field-of-view coefficient of a fisheye lens: 1 radian.
FisheyeCoeffs == <<One, 0, 0, 0, 0>>

\* Intrinsics of a 4x4 image for every distortion model, with a focal
\* length that keeps the sampled pixels inside the field of view.
KernelIntrinsicsSet ==
  {Intrinsics(4, 4, Two, Two, Two, Two, m, MildCoeffs) :
     m \in DistortionModels \ {"FThetaFisheye"}}
  \cup {Intrinsics(4, 4, Two, Two, Two, Two, "FThetaFisheye", FisheyeCoeffs)}
  \cup {Intrinsics(4, 4, Two, Two, Two, Two, m, NoCoeffs) :
          m \in {"None", "BrownConrady", "BrownConradyInverse",
                 "BrownConradyModified", "KannalaBrandt"}}

\* Bound on the pixel coordinates sampled.
MaxCoord == 4

\* Depths sampled, all > 0.
KernelDepths == {1, 1000}

\* The arguments a caller may hand to rs2_deproject_pixel_to_point.
KernelCalls ==
  {[intrin |-> i, pixel |-> <<I2F(px), I2F(py)>>, depth |-> I2F(d)] :
     i \in KernelIntrinsicsSet, px \in 0..MaxCoord, py \in 0..MaxCoord,
     d \in KernelDepths}

InitKernel ==
  /\ NoWorker
  /\ call \in KernelCalls
  /\ cloud = None
  /\ ret = None

\* rs2_deproject_pixel_to_point(intrin, pixel, depth)
CallDeproject ==
  /\ ret = None
  /\ \E r \in {rs2_deproject_pixel_to_point(call.intrin, call.pixel,
                                              call.depth)} :
        ret' = Returned("deproject", r)
  /\ UNCHANGED <<worker, call, cloud>>

\* rs2_project_point_to_pixel(intrin, point) with the point deprojected.
CallProject ==
  /\ ret # None
  /\ ret[1].fn = "deproject"
  /\ ~ret[1].out.panic
  /\ \E r \in {rs2_project_point_to_pixel(call.intrin, ret[1].out.val)} :
        ret' = Some([fn |-> "project", point |-> ret[1].out.val, out |-> Ok(r)])
  /\ UNCHANGED <<worker, call, cloud>>

NextKernel ==
  \/ CallDeproject
  \/ CallProject

SpecKernel == InitKernel /\ [][NextKernel]_vars

\* C5: deprojection through BrownConradyModified never returns a point,
\* whatever the pixel, the depth and the coefficients.
C5_ModifiedNeverDeprojects ==
  (/\ ret # None
   /\ ret[1].fn = "deproject"
   /\ call.intrin.model = "BrownConradyModified")
  => /\ ret[1].out.panic
     /\ ret[1].out.msg = "Deprojection does not support BrownConradyModified"

\* A deprojection through BrownConradyModified was called and returned.
C5_Witness ==
  /\ ret # None
  /\ ret[1].fn = "deproject"
  /\ call.intrin.model = "BrownConradyModified"
  /\ call.intrin.coeffs = MildCoeffs
  /\ ret[1].out.panic

\* 1e-2 pixels
RoundTripTolerance == Scale \div 100

\* The pixel projected from the deprojected point is the pixel deprojected,
\* within the tolerance, and the point has the depth for Z.
RoundTrips ==
  /\ Near(ret[1].out.val[1], call.pixel[1], RoundTripTolerance)
  /\ Near(ret[1].out.val[2], call.pixel[2], RoundTripTolerance)
  /\ ret[1].point[3] = call.depth

\* C10 as stated: for every model other than BrownConradyModified, every
\* sampled pixel and every depth > 0, projecting the deprojected point
\* gives the pixel back within 1e-2 pixels, and the point's Z is the depth.
C10_RoundTrip ==
  (ret # None /\ ret[1].fn = "project") => RoundTrips

\* The same for the models other than FThetaFisheye.
RoundTripButFisheye ==
  (ret # None /\ ret[1].fn = "project"
     /\ call.intrin.model # "FThetaFisheye") => RoundTrips

\* The Z of a deprojected point is the depth, for every model.
DeprojectKeepsDepth ==
  (ret # None /\ ret[1].fn = "deproject" /\ ~ret[1].out.panic) =>
    ret[1].out.val[3] = call.depth

\* ------------------------------------- callers of the point operations

\* Bound on the coordinates of the points sampled: -1..MaxPoint.
MaxPoint == 2

\* Intrinsics of every model, with and without coefficients.
PointIntrinsicsSet ==
  {Intrinsics(4, 4, Two, One + Half, Two, One, m, c) :
     m \in DistortionModels, c \in {MildCoeffs, NoCoeffs}}

\* A quarter turn about z, stored column by column.
QuarterTurnRotation == <<0, One, 0, 0 - One, 0, 0, 0, 0, One>>

\* Nine different numbers: the function takes any array.
CountingRotation ==
  <<I2F(1), I2F(2), I2F(3), I2F(4), I2F(5), I2F(6), I2F(7), I2F(8), I2F(9)>>

PointExtrinsicsSet ==
  {Extrinsics(IdentityRotation, <<0, 0, 0>>),
   Extrinsics(QuarterTurnRotation, <<I2F(1), I2F(2), I2F(3)>>),
   Extrinsics(CountingRotation, <<I2F(10), I2F(20), I2F(30)>>)}

\* The arguments a caller may hand to rs2_project_point_to_pixel and
\* rs2_transform_point_to_point.
PointCalls ==
  {[intrin |-> i, extrin |-> e, point |-> <<I2F(X), I2F(Y), I2F(Z)>>] :
     i \in PointIntrinsicsSet, e \in PointExtrinsicsSet,
     X \in (0 - 1)..MaxPoint, Y \in (0 - 1)..MaxPoint, Z \in 0..MaxPoint}

InitPoint ==
  /\ NoWorker
  /\ call \in PointCalls
  /\ cloud = None
  /\ ret = None

\* rs2_project_point_to_pixel(intrin, point)
CallProjectPoint ==
  /\ ret = None
  /\ \E r \in {rs2_project_point_to_pixel(call.intrin, call.point)} :
        ret' = Returned("project_point", Ok(r))
  /\ UNCHANGED <<worker, call, cloud>>

\* rs2_transform_point_to_point(extrin, point)
CallTransform ==
  /\ ret = None
  /\ \E r \in {rs2_transform_point_to_point(call.extrin, call.point)} :
        ret' = Returned("transform", Ok(r))
  /\ UNCHANGED <<worker, call, cloud>>

NextPoint ==
  \/ CallProjectPoint
  \/ CallTransform

SpecPoint == InitPoint /\ [][NextPoint]_vars

\* The last call was to fn and returned.
Called(fn) == ret # None /\ ret[1].fn = fn

\* C11: with the model None and Z # 0 the projection of [X, Y, Z] is
\* exactly [X/Z fx + ppx, Y/Z fy + ppy], whatever the five coefficients.
C11_NoDistortionIdentity ==
  (/\ Called("project_point")
   /\ call.intrin.model = "None"
   /\ call.point[3] # 0)
  => ret[1].out.val =
       <<FAdd(FMul(FDiv(call.point[1], call.point[3]), call.intrin.fx),
              call.intrin.ppx),
         FAdd(FMul(FDiv(call.point[2], call.point[3]), call.intrin.fy),
              call.intrin.ppy)>>

\* A point off the axis, in front of the camera, was projected through the
\* model None with coefficients that are not zero.
C11_Witness ==
  /\ Called("project_point")
  /\ call.intrin.model = "None"
  /\ call.intrin.coeffs = MildCoeffs
  /\ call.point = <<I2F(2), I2F(0 - 1), I2F(1)>>

\* R p + t with the rotation read column by column:
\* R[i][j] = rotation[3 j + i].
ColumnMajorProduct(extrin, p) ==
  [i \in 1..3 |->
     FAdd(FAdd(FAdd(FMul(extrin.rotation[i], p[1]),
                    FMul(extrin.rotation[3 + i], p[2])),
               FMul(extrin.rotation[6 + i], p[3])),
          extrin.translation[i])]

\* C12 as stated: the transform returns R p + t with the rotation array
\* read as a row-major matrix, R[i][j] = rotation[3 i + j].
C12_RowMajor ==
  Called("transform") =>
    ret[1].out.val = TransformRowMajor(call.extrin, call.point)

\* C12, amended: the transform returns R p + t with the rotation array
\* read as a column-major matrix, R[i][j] = rotation[3 j + i]: component
\* i is rotation[i] p0 + rotation[3 + i] p1 + rotation[6 + i] p2 + t[i].
C12_ColumnMajor ==
  Called("transform") =>
    ret[1].out.val = ColumnMajorProduct(call.extrin, call.point)

\* A point was transformed by a rotation array that is not symmetric.
C12_Witness ==
  /\ Called("transform")
  /\ call.extrin.rotation = CountingRotation
  /\ call.point = <<I2F(2), I2F(0 - 1), I2F(1)>>
  /\ ret[1].out.val = <<I2F(15), I2F(27), I2F(39)>>

\* The models of the Brown-Conrady family.
BrownConradyFamily ==
  {"BrownConradyModified", "BrownConradyInverse", "BrownConrady"}

\* The pixel the Brown-Conrady projections give when the radial factor of
\* the normalized <<x, y>> is f.
PixelWithFactor(intrin, x, y, f) ==
  LET c == intrin.coeffs
      r2 == Radius2(x, y)
      d == IF intrin.model = "BrownConrady"
           THEN <<TangentialX(c, FMul(x, f), x, y, r2),
                  TangentialY(c, FMul(y, f), x, y, r2)>>
           ELSE <<TangentialX(c, FMul(x, f), FMul(x, f), FMul(y, f), r2),
                  TangentialY(c, FMul(y, f), FMul(x, f), FMul(y, f), r2)>>
  IN <<FAdd(FMul(d[1], intrin.fx), intrin.ppx),
       FAdd(FMul(d[2], intrin.fy), intrin.ppy)>>

\* k * x * x * ... * x with n factors x, multiplied from the left as the
\* code multiplies.
RECURSIVE ScaledPower(_, _, _)
ScaledPower(k, x, n) == IF n = 0 THEN k ELSE FMul(ScaledPower(k, x, n - 1), x)

\* 1 + k1 r2 + k2 r2^2 + k3 r2^n
FactorWithPower(c, r2, n) ==
  FAdd(FAdd(FAdd(One, FMul(c[1], r2)), FMul(FMul(c[2], r2), r2)),
       ScaledPower(c[5], r2, n))

\* The normalized coordinates of the point of the call.
NormX == FDiv(call.point[1], call.point[3])

NormY == FDiv(call.point[2], call.point[3])

\* C17 as stated: the Brown-Conrady projections use the radial factor
\* f = 1 + k1 r2 + k2 r2^2 + k3 r2^6.
C17_SixthPower ==
  (/\ Called("project_point")
   /\ call.intrin.model \in BrownConradyFamily
   /\ call.point[3] # 0)
  => ret[1].out.val =
       PixelWithFactor(call.intrin, NormX, NormY,
         FactorWithPower(call.intrin.coeffs, Radius2(NormX, NormY), 6))

\* C17, amended: the Brown-Conrady projections use the radial factor
\* f = 1 + k1 r2 + k2 r2^2 + k3 r2^3 (k3 multiplies r^6, the cube of r2),
\* with k1, k2, k3 the coefficients at indices 0, 1, 4.
C17_ThirdPower ==
  (/\ Called("project_point")
   /\ call.intrin.model \in BrownConradyFamily
   /\ call.point[3] # 0)
  => ret[1].out.val =
       PixelWithFactor(call.intrin, NormX, NormY,
         FactorWithPower(call.intrin.coeffs, Radius2(NormX, NormY), 3))

\* A point with r2 = 2 was projected through a Brown-Conrady model with
\* k3 # 0.
C17_Witness ==
  /\ Called("project_point")
  /\ call.intrin.model = "BrownConrady"
  /\ call.intrin.coeffs[5] # 0
  /\ call.point = <<I2F(1), I2F(0 - 1), I2F(1)>>

\* ------------------------------------------ the channel to the consumer

\* C13: an update that finds point clouds queued removes all of them and
\* renders only the one produced last; the frames rendered are in strictly
\* increasing order of production, and whatever is queued afterwards is
\* newer than every frame rendered.
C13_KeepOnlyLatest ==
  [][/\ (render_tx' # render_tx \/ Len(chan') < Len(chan)) =>
          /\ chan # <<>>
          /\ chan' = <<>>
          /\ render_tx' = Append(render_tx, RenderMsg(chan[Len(chan)]))
          /\ \A k \in 1..Len(chan) : chan[k].frame <= chan[Len(chan)].frame
     /\ \A k \in 2..Len(render_tx') :
          render_tx'[k - 1].frame < render_tx'[k].frame
     /\ \A k \in 1..Len(chan') :
          chan'[k].frame > render_tx'[Len(render_tx')].frame]_vars

\* An update found two frames queued: the second was rendered, the first
\* never.
C13_Witness ==
  /\ Len(render_tx) = 2
  /\ render_tx[2].frame = 2
  /\ render_tx[2] = RenderMsg([frame |-> 2, cloud |-> pcld_data[1]])
  /\ chan = <<>>

\* C14: the hand-off of a point cloud never waits for the consumer: when
\* the worker is at its callback the send is possible however many frames
\* are still queued.
C14_NoBackPressure == pc = "callback" => ENABLED Callback

\* A cloud was sent while the one before it was still queued.
C14_Witness ==
  /\ Len(chan) = 2
  /\ chan[1].frame = 1
  /\ chan[2].frame = 2
  /\ pc = "wait"

\* ------------------------------------------------- corners of footprints

\* The color-pixel coordinate align_images projects the corner of depth
\* pixel i (0-based) moved by off to, before it is rounded.
ProjectedCorner(i, off) ==
  rs2_project_point_to_pixel(color_intrinsics,
    rs2_transform_point_to_point(depth_to_color_extrinsics,
      rs2_deproject_pixel_to_point(depth_intrinsics,
        <<FAdd(I2F(i % depth_intrinsics.width), off),
          FAdd(I2F(i \div depth_intrinsics.width), off)>>,
        I2F(in_depth_buf[i + 1])).val))

\* floor(c + 0.5) for a finite c.
FloorHalf(c) == FAdd(c, Half) \div Scale

\* The depth pixels align_images has been through that hold a measurement.
Measured ==
  IF pc \in {"align", "convert", "callback"}
  THEN {i \in 0..(depth_pixel_index - 1) : in_depth_buf[i + 1] # 0}
  ELSE {}

\* C15 as stated: each corner coordinate is floor(c + 0.5) of the
\* projected coordinate c, for every finite c, negative ones included.
C15_CornerFloor ==
  \A i \in Measured : \A k \in 1..2 :
    /\ IsFinite(ProjectedCorner(i, 0 - Half)[k]) =>
         CornerA(i).val[k] = FloorHalf(ProjectedCorner(i, 0 - Half)[k])
    /\ IsFinite(ProjectedCorner(i, Half)[k]) =>
         CornerB(i).val[k] = FloorHalf(ProjectedCorner(i, Half)[k])

\* Depth pixel i passes the bounds test of align_images, and the rectangle
\* between its corners is not empty.
Splatted(i) ==
  /\ ~OutOfBounds(CornerA(i).val[1], CornerA(i).val[2],
                  CornerB(i).val[1], CornerB(i).val[2],
                  color_intrinsics.width, color_intrinsics.height)
  /\ CornerA(i).val[1] <= CornerB(i).val[1]
  /\ CornerA(i).val[2] <= CornerB(i).val[2]

\* The color sample at <<x, y>> = p of the color image.
ColorAt(p) == in_color_buf[p[2] * color_intrinsics.width + p[1] + 1]

\* C16: a measured depth pixel that passes the bounds test with a
\* rectangle that is not empty ends with the color sample visited last in
\* raster order, the one at corner B.
C16_LastWriteWins ==
  \A i \in Measured :
    Splatted(i) => out_color_buf[i + 1] = ColorAt(CornerB(i).val)

\* A pixel whose rectangle spans two rows and two columns was aligned.
C16_Witness ==
  /\ pc = "convert"
  /\ \E i \in Measured :
       /\ Splatted(i)
       /\ CornerA(i).val[1] < CornerB(i).val[1]
       /\ CornerA(i).val[2] < CornerB(i).val[2]
       /\ out_color_buf[i + 1] # ColorAt(CornerA(i).val)

\* ------------------------------------------------ the point cloud built

\* The position the builder gives pixel i (0-based) of a cloud w wide.
BuiltPosition(i, w) ==
  rs2_deproject_pixel_to_point(depth_intrinsics,
    <<FSub(I2F(i % w), Half), FSub(I2F(i \div w), Half)>>,
    I2F(in_depth_buf[i + 1])).val

\* C18: the cloud built from a frame has the color frame's width and, for
\* every pixel index i in raster order, valid[i] = (depth[i] # 0),
\* position[i] = deproject(depth_intrinsics,
\* (i mod w - 0.5, i div w - 0.5), depth[i]) and color[i] = aligned[i].
C18_Builder ==
  pc = "callback" =>
    /\ width(pcld_data[1]) = color_intrinsics.width
    /\ Len(valid(pcld_data[1])) = Len(in_depth_buf)
    /\ \A i \in 0..(Len(in_depth_buf) - 1) :
         /\ valid(pcld_data[1])[i + 1] = (in_depth_buf[i + 1] # 0)
         /\ position(pcld_data[1])[i + 1] =
              BuiltPosition(i, color_intrinsics.width)
         /\ color(pcld_data[1])[i + 1] = out_color_buf[i + 1]

\* A cloud was built from a frame with a measurement in its last pixel,
\* the color image being narrower than the depth image.
C18_Witness ==
  /\ pc = "callback"
  /\ color_intrinsics.width < depth_intrinsics.width
  /\ in_depth_buf[Len(in_depth_buf)] # 0

\* ------------------------------------------------ failures of the worker

\* The color and depth streams differ in pixel count or in width.
Mismatched ==
  \/ depth_intrinsics.width # color_intrinsics.width
  \/ depth_intrinsics.width * depth_intrinsics.height #
       color_intrinsics.width * color_intrinsics.height

\* C19 as stated: when the depth and color frames differ in pixel count or
\* width, no buffer is indexed out of range: the frame is rejected by the
\* assertions of ImagePointCloud::new.
C19_NoIndexOutOfBounds ==
  Mismatched => panic_msg # Some("index out of bounds")

\* The panics of an iteration that gets no usable frame pair.
CaptureFailures ==
  {"called Result::unwrap() on an Err value", "unexpected pixel format"}

\* The worker hit a capture failure.
CaptureFailed == panic_msg # None /\ panic_msg[1] \in CaptureFailures

\* C20 as stated: a wait that times out or a pixel of unexpected format
\* fails that iteration only: no cloud is handed over for it and the
\* worker goes on to wait for the next frame.
C20_FailureScoped == CaptureFailed => pc = "wait"

\* C20, amended: a wait that times out or a pixel of unexpected format is
\* fatal for the worker: the step that fails hands no cloud to the
\* callback and ends the worker, which never captures or sends again;
\* what was sent before stays available to the consumer.
C20_FailureEndsWorker ==
  [][/\ (panic_msg' # panic_msg /\ panic_msg'[1] \in CaptureFailures) =>
          /\ pc' = "dead"
          /\ chan' = chan
          /\ pcld_data' = pcld_data
          /\ render_tx' = render_tx
     /\ (CaptureFailed /\ pc = "dead") =>
          /\ pc' = "dead"
          /\ frames' = frames
          /\ pcld_data' = pcld_data
          /\ chan' = chan \/ chan' = <<>>]_vars

\* The second iteration failed after the first frame had been sent; the
\* consumer has rendered that frame since.
C20_Witness ==
  /\ CaptureFailed
  /\ pc = "dead"
  /\ frames = 1
  /\ chan = <<>>
  /\ Len(render_tx) = 2

\* ------------------------------------------------- state across frames

\* Depth pixel i (0-based) of the frame in the buffers has been written by
\* align_images.
Written(i) == i \in Measured /\ Splatted(i)

\* The point cloud of the frame in the buffers computed from the frame and
\* the calibration alone, the aligned buffer starting all-default.
FrameCloud ==
  BuildCloud(depth_intrinsics, color_intrinsics, in_depth_buf,
    align_images(depth_intrinsics, depth_to_color_extrinsics,
                 color_intrinsics, in_depth_buf, in_color_buf,
                 [i \in 1..Len(in_depth_buf) |-> DefaultColor], 0).val).val

\* C21: no state crosses frames: whenever the worker leaves a step of
\* aligning, building or sending a frame, every pixel of the aligned buffer
\* that was not written for this frame holds the default color; the cloud
\* built and sent for a frame is the function of that frame's buffers and
\* the calibration; and a cloud that was sent, or rendered, is not changed
\* by any later step.
C21_NoCrossFrameState ==
  [][/\ (pc \in {"align", "convert", "callback"} /\
         (pc' # pc \/ depth_pixel_index' # depth_pixel_index)) =>
          \A i \in 0..(Len(out_color_buf) - 1) :
            out_color_buf[i + 1] # DefaultColor => Written(i)
     /\ (pc = "callback" /\ pc' = "wait") =>
          /\ pcld_data[1] = FrameCloud
          /\ chan'[Len(chan')] = [frame |-> frames, cloud |-> pcld_data[1]]
     /\ \/ chan' = <<>>
        \/ /\ Len(chan') >= Len(chan)
           /\ SubSeq(chan', 1, Len(chan)) = chan
     /\ Len(render_tx') >= Len(render_tx)
     /\ SubSeq(render_tx', 1, Len(render_tx)) = render_tx]_vars

\* Two frames were sent: a pixel the first frame colored is not written by
\* the second, and has the default color in the second cloud.
C21_Witness ==
  /\ Len(chan) = 2
  /\ \E i \in 1..Len(color(chan[1].cloud)) :
       /\ color(chan[1].cloud)[i] # DefaultColor
       /\ color(chan[2].cloud)[i] = DefaultColor

\* ------------------------------------------------------------- coverage

\* C22 as stated: every measured depth pixel whose corners A and B both
\* lie inside the color image is written by align_images at least once:
\* its aligned color is a sample of the color image.
C22_CoverageWithoutHoles ==
  \A i \in Measured :
    (~Outside(CornerA(i).val) /\ ~Outside(CornerB(i).val)) =>
      out_color_buf[i + 1] # DefaultColor

\* ------------------------------------------------------ frame condition

\* C23: a step of align_images on depth pixel depth_pixel_index changes at
\* most the output element of that index, to a sample of the color image;
\* every other output element, the length of the output, and the depth and
\* color input buffers stay as they are; and outside align_images the
\* aligned buffer changes only when an iteration resets it.
C23_FrameCondition ==
  [][/\ pc = "align" =>
          /\ in_depth_buf' = in_depth_buf
          /\ in_color_buf' = in_color_buf
          /\ Len(out_color_buf') = Len(out_color_buf)
          /\ \A k \in 1..Len(out_color_buf) :
               out_color_buf'[k] # out_color_buf[k] =>
                 /\ k = depth_pixel_index + 1
                 /\ depth_pixel_index' = depth_pixel_index + 1
                 /\ in_depth_buf[k] # 0
                 /\ \E c \in 1..Len(in_color_buf) :
                      out_color_buf'[k] = in_color_buf[c]
     /\ out_color_buf' # out_color_buf => pc \in {"align", "wait"}]_vars

\* align_images has written the pixel it just processed while a measured
\* pixel after it still holds the default color.
C23_Witness ==
  /\ pc = "align"
  /\ depth_pixel_index >= 1
  /\ depth_pixel_index < Len(out_color_buf)
  /\ out_color_buf[depth_pixel_index] # DefaultColor
  /\ in_depth_buf[depth_pixel_index + 1] # 0
  /\ out_color_buf[depth_pixel_index + 1] = DefaultColor

\* ------------------------------------------- callers of the transfer step

\* Bound on the corner coordinates sampled: -1..MaxCorner.
MaxCorner == 3

\* The resolutions of the depth streams.
DepthSizes ==
  {[width |-> i.width, height |-> i.height] : i \in DepthIntrinsicsSet}

\* One pass of the loops of align_images from the bounds test on (lines
\* 260-275) at depth pixel <<depth_x, depth_y>>, for any two corners.
SplatCalls ==
  {[depth_intrin |-> d, other_intrin |-> o, depth_x |-> dx, depth_y |-> dy,
    a |-> <<x0, y0>>, b |-> <<x1, y1>>] :
     d \in DepthSizes, o \in ColorIntrinsicsSet,
     dx \in 0..1, dy \in 0..1,
     x0 \in (0 - 1)..MaxCorner, y0 \in (0 - 1)..MaxCorner,
     x1 \in (0 - 1)..MaxCorner, y1 \in (0 - 1)..MaxCorner}

\* Lines 231 and 233: the loops reach the pixels of the depth image only.
InitSplat ==
  /\ NoWorker
  /\ call \in SplatCalls
  /\ call.depth_x < call.depth_intrin.width
  /\ call.depth_y < call.depth_intrin.height
  /\ cloud = None
  /\ ret = None

\* Line 234
DepthPixelIndex(c) == c.depth_y * c.depth_intrin.width + c.depth_x

\* Lines 260-275 on a color image and an output image of the sizes of the
\* two streams.
CallSplat ==
  /\ ret = None
  /\ \E r \in {Splat(Ok(call.a), Ok(call.b), call.other_intrin,
                      [i \in 1..(call.other_intrin.width *
                                   call.other_intrin.height) |-> Palette[i]],
                      [i \in 1..(call.depth_intrin.width *
                                   call.depth_intrin.height) |-> DefaultColor],
                      DepthPixelIndex(call))} :
        ret' = Returned("splat", r)
  /\ UNCHANGED <<worker, call, cloud>>

NextSplat == CallSplat

SpecSplat == InitSplat /\ [][NextSplat]_vars

\* The <<x, y>> of the color image the pass of call c reads.
Reads(c) ==
  IF OutOfBounds(c.a[1], c.a[2], c.b[1], c.b[2],
                 c.other_intrin.width, c.other_intrin.height)
  THEN <<>>
  ELSE Rectangle(c.a[1], c.a[2], c.b[1], c.b[2])

\* C24: with buffers of the sizes of the two streams a pass of
\* align_images never indexes out of range: the pass does not panic, the
\* depth and output index is below depth_width * depth_height, and every
\* <<x, y>> read from the color image has 0 <= x < color_width and
\* 0 <= y < color_height, whatever the corners A and B.
C24_NoIndexOutOfRange ==
  Called("splat") =>
    /\ ~ret[1].out.panic
    /\ DepthPixelIndex(call) <
         call.depth_intrin.width * call.depth_intrin.height
    /\ \A k \in 1..Len(Reads(call)) :
         /\ 0 <= Reads(call)[k][1]
         /\ Reads(call)[k][1] < call.other_intrin.width
         /\ 0 <= Reads(call)[k][2]
         /\ Reads(call)[k][2] < call.other_intrin.height

\* A pass whose corner A lies beyond the right edge of the color image
\* passed the bounds test, read nothing and left the output as it was.
C24_Witness ==
  /\ Called("splat")
  /\ call.a[1] >= call.other_intrin.width
  /\ ~OutOfBounds(call.a[1], call.a[2], call.b[1], call.b[2],
                  call.other_intrin.width, call.other_intrin.height)
  /\ ~ret[1].out.panic
  /\ ret[1].out.val[DepthPixelIndex(call) + 1] = DefaultColor

\* ------------------------------------------------ the consumer when idle

\* C25: the consumer never waits for the capture worker: while no point
\* cloud is queued an update is possible and completes, no step sends a
\* render message, and the geometry uploaded changes only to that of a
\* message sent before; once the worker has ended with nothing queued this
\* stays so forever.
C25_ConsumerNeverBlocks ==
  [][/\ chan = <<>> =>
          /\ ENABLED Update
          /\ render_tx' = render_tx
          /\ view3d' # view3d =>
               /\ view3d.rx < Len(render_tx)
               /\ view3d'.point_buf = render_tx[Len(render_tx)].points
               /\ view3d'.line_buf = render_tx[Len(render_tx)].lines
     /\ (pc = "dead" /\ chan = <<>>) =>
          /\ pc' = "dead"
          /\ chan' = <<>>]_vars

\* The worker has ended, nothing is queued, and the cloud of the frame it
\* sent is the geometry on screen.
C25_Witness ==
  /\ pc = "dead"
  /\ chan = <<>>
  /\ Len(render_tx) = 2
  /\ view3d.rx = 2
  /\ view3d.point_buf = render_tx[2].points
  /\ view3d.point_buf # <<>>
====
